---- MODULE Spec2Model ----
(***************************************************************************)
(* pylogcfg: a process-local asynchronous logging pipeline.                *)
(*                                                                         *)
(* Application threads call get_logger / initialize_logging, emit events   *)
(* through the configured QueueHandler, and call _stop_listener.  One      *)
(* QueueListener thread per constructed listener dequeues records and      *)
(* drives them into a RotatingFileHandler whose namer rewrites the suffix  *)
(* of every backup name to ".jsonl".                                       *)
(*                                                                         *)
(* Every step is one atomic read or write of the module's globals          *)
(* (_logger, _log_queue, _listener, _init_lock), so the interleavings of   *)
(* real threads are the behaviours of this specification.                  *)
(***************************************************************************)
EXTENDS Integers, Sequences, FiniteSets, TLC

(***************************************************************************)
(* Bounds of the model.                                                    *)
(***************************************************************************)
\* application threads
NThreads == 2
\* explicit emit calls per thread (initialize_logging adds its own two)
MaxEmit == 1
\* injected environment failures (construction steps, sink I/O)
MaxFaults == 1
\* pipeline constructions (queues created) in one run
MaxInits == 2
\* largest backup_count of the configuration document
MaxBackup == 2
\* largest max_log_size of the configuration document, in line units
MaxSize == 2

Threads == 1..NThreads

\* Python's None for the handles that hold an object id (a positive number).
None == 0
\* The QueueListener's sentinel object and "no record in hand".
Sentinel == <<0, 0>>
NoRec == <<0, 1>>

VARIABLES
    logger,        \* _logger: FALSE (None) or TRUE (the "pylogcfg" logger)
    log_queue,     \* _log_queue: None or a queue id
    listener,      \* _listener: None or a listener id
    init_lock,     \* _init_lock: None (free) or the thread holding it
    queues,        \* queue id -> the items of that queue.Queue, head first
    listeners,     \* listener id -> the QueueListener object and its handler
    handlerQueue,  \* <<q>>: the queue of the QueueHandler dictConfig installed;
                   \* <<>> before dictConfig has run
    backupCount,   \* json_config["backup_count"]
    maxBytes,      \* json_config["max_log_size"]
    fs,            \* the log directory: file name -> lines, oldest first
    pc,            \* thread -> the line it is at
    timedOut,      \* thread -> the drain loop of its _stop_listener ran out of time
    joining,       \* thread -> the listener object its stop() call joins or has
                   \* joined; None when stop() raised or was not reached
    result,        \* thread -> how its last call ended: "logger" or
                   \* "RuntimeError" from get_logger, "None" from a
                   \* _stop_listener that found no listener
    enqLog,        \* every event put on a queue, in the order of the puts
    emits,         \* thread -> explicit emit calls so far
    snap,          \* thread -> Len(enqLog) when its _stop_listener call began
    released,      \* a _stop_listener call has released the handles and returned
    faults,        \* injected failures so far
    raised,        \* initialize_logging calls that raised
    written,       \* every line the sink has written, in write order
    dropped,       \* events the sink dropped after an error
    rolls,         \* rollovers that completed
    formatter,     \* <<f>>: a constructed JSONLogFormatter; <<>> before
    record,        \* <<r>>: the LogRecord last handed to format; <<>> before
    out,           \* <<o>>: what that format call returned or raised; <<>> before
    config_file,   \* <<d>>: the document in pylogconfig.json; <<>> without the file
    levels,        \* logger name -> the level of that logging.Logger
    lastLevel,     \* logger name -> the level argument of the last get_logger
                   \* call that returned this handle; "never" before
    last           \* <<c>>: the last whole get_logger call: the configuration
                   \* setup() returned, the handle, its level before the
                   \* call and how the call ended

\* The module's globals, the listener threads and the log directory.
pipeline == <<logger, log_queue, listener, init_lock, queues, listeners,
              handlerQueue, backupCount, maxBytes, fs, pc, timedOut, joining,
              result, enqLog, emits, snap, released, faults, raised, written,
              dropped, rolls>>

\* A JSONLogFormatter driven on its own.
formatting == <<formatter, record, out>>

\* The configuration document and the logger handles, for get_logger
\* called from one thread, call after call.
facade == <<config_file, levels, lastLevel, last>>

vars == <<pipeline, formatting, facade>>

(***************************************************************************)
(* File names.  A name is the sequence of its dot-separated parts, so      *)
(* "log.jsonl.1" is <<"log", "jsonl", "1">>.                               *)
(***************************************************************************)
\* setup(): config["log_file"] = logs_dir / "log.jsonl"
baseFilename == <<"log", "jsonl">>

\* "%s.%d" % (self.baseFilename, i)
Indexed(name, i) == Append(name, ToString(i))

\* Path(name).with_suffix(suffix): the last dot-part is the suffix and is
\* replaced; a name without a suffix gets one.
with_suffix(name, suffix) ==
    IF Len(name) > 1
    THEN Append(SubSeq(name, 1, Len(name) - 1), suffix)
    ELSE Append(name, suffix)

\* file_handler.namer
namer(name) == with_suffix(name, "jsonl")

\* BaseRotatingHandler.rotation_filename: the namer is callable
rotation_filename(name) == namer(name)

(***************************************************************************)
(* The file system calls the handler makes.  A directory is a function     *)
(* from the names that exist to their lines; a call returns the new        *)
(* directory and whether it raised OSError.                                *)
(***************************************************************************)
exists(dir, name) == name \in DOMAIN dir

Without(dir, name) == [n \in DOMAIN dir \ {name} |-> dir[n]]

\* os.remove(name)
remove(dir, name) ==
    IF exists(dir, name)
    THEN [dir |-> Without(dir, name), ok |-> TRUE]
    ELSE [dir |-> dir, ok |-> FALSE]

\* os.rename(src, dst): FileNotFoundError without src; onto itself it does
\* nothing; otherwise dst is replaced.
rename(dir, src, dst) ==
    IF ~exists(dir, src) THEN [dir |-> dir, ok |-> FALSE]
    ELSE IF src = dst THEN [dir |-> dir, ok |-> TRUE]
    ELSE [dir |-> (dst :> dir[src]) @@ Without(dir, src), ok |-> TRUE]

\* One turn of doRollover's loop, for index i: <name>.i becomes <name>.(i+1).
ShiftOne(dir, i) ==
    LET sfn == rotation_filename(Indexed(baseFilename, i))
        dfn == rotation_filename(Indexed(baseFilename, i + 1))
    IN IF ~exists(dir, sfn) THEN [dir |-> dir, ok |-> TRUE]
       ELSE LET d1 == IF exists(dir, dfn) THEN remove(dir, dfn).dir ELSE dir
            IN rename(d1, sfn, dfn)

\* for i in range(self.backupCount - 1, 0, -1): the first OSError ends it.
RECURSIVE ShiftLoop(_, _)
ShiftLoop(dir, i) ==
    IF i < 1 THEN [dir |-> dir, ok |-> TRUE]
    ELSE LET r == ShiftOne(dir, i)
         IN IF r.ok THEN ShiftLoop(r.dir, i - 1) ELSE r

\* RotatingFileHandler.doRollover, after the stream is closed: shift the
\* backups, then rotate the active file into <name>.1.
doRollover(dir, count) ==
    IF count > 0
    THEN LET s == ShiftLoop(dir, count - 1)
             dfn == rotation_filename(Indexed(baseFilename, 1))
             d1 == IF exists(s.dir, dfn) THEN remove(s.dir, dfn).dir ELSE s.dir
         IN IF ~s.ok THEN s
            ELSE IF exists(d1, baseFilename)
                 THEN rename(d1, baseFilename, dfn)
                 ELSE [dir |-> d1, ok |-> TRUE]
    ELSE [dir |-> dir, ok |-> TRUE]

\* Every formatted line is one unit long, newline included.
LineLen(rec) == 1

\* stream.tell() after seek(0, 2): the size of the active file
Tell(dir) == IF exists(dir, baseFilename) THEN Len(dir[baseFilename]) ELSE 0

\* RotatingFileHandler.shouldRollover, the stream open
shouldRollover(dir, size, rec) == size > 0 /\ Tell(dir) + LineLen(rec) >= size

\* FileHandler._open in mode "a" creates the file; StreamHandler.emit
\* appends the line.
AppendLine(dir, rec) ==
    IF exists(dir, baseFilename)
    THEN [dir EXCEPT ![baseFilename] = Append(@, rec)]
    ELSE (baseFilename :> <<rec>>) @@ dir

\* The backups in the directory: every file but the active one.
Backups(dir) == DOMAIN dir \ {baseFilename}

\* FileHandler._open in mode "a": the file exists afterwards.
Open(dir) == IF exists(dir, baseFilename) THEN dir ELSE (baseFilename :> <<>>) @@ dir

(***************************************************************************)
(* BaseRotatingHandler.emit for one record: shouldRollover (which opens    *)
(* the delayed stream), doRollover, FileHandler.emit.  Any exception is    *)
(* caught and handed to handleError, and the record is dropped.  fault     *)
(* names the step the environment fails: "open" (the first _open this      *)
(* call makes), "write" (stream.write), or "none".                         *)
(* Returns the directory, whether the stream is left open, whether the     *)
(* line was written and whether a rollover completed.                      *)
(***************************************************************************)
SinkEmit(dir, open, count, size, rec, fault) ==
    IF ~open /\ fault = "open"
    THEN [dir |-> dir, open |-> FALSE, wrote |-> FALSE, rolled |-> FALSE]
    ELSE LET d0 == Open(dir)
         IN IF shouldRollover(d0, size, rec)
            THEN LET r == doRollover(d0, count)
                 IN IF ~r.ok \/ fault = "open"
                    THEN [dir |-> r.dir, open |-> FALSE, wrote |-> FALSE,
                          rolled |-> r.ok]
                    ELSE IF fault = "write"
                    THEN [dir |-> Open(r.dir), open |-> TRUE, wrote |-> FALSE,
                          rolled |-> TRUE]
                    ELSE [dir |-> AppendLine(r.dir, rec), open |-> TRUE,
                          wrote |-> TRUE, rolled |-> TRUE]
            ELSE IF fault = "write"
                 THEN [dir |-> d0, open |-> TRUE, wrote |-> FALSE, rolled |-> FALSE]
                 ELSE [dir |-> AppendLine(d0, rec), open |-> TRUE,
                       wrote |-> TRUE, rolled |-> FALSE]

\* A fault the environment can inject into this call: "open" needs an _open.
FaultApplies(dir, open, size, rec, fault) ==
    \/ fault = "write"
    \/ fault = "open" /\ (~open \/ shouldRollover(Open(dir), size, rec))

(***************************************************************************)
(* queue.Queue                                                             *)
(***************************************************************************)
\* A LIFO queue in place of queue.Queue.
Put_Front(q, item) == <<item>> \o q

\* Queue.put_nowait on an unbounded queue
Put(q, item) == Append(q, item)

\* Queue.qsize
qsize(q) == Len(q)

\* QueueHandler.emit: enqueue on the handler's queue; with the queue None
\* the AttributeError goes to handleError and the record is never queued.
Enqueue(qs, qid, item) ==
    IF qid = None THEN qs ELSE [qs EXCEPT ![qid] = Put(@, item)]

(***************************************************************************)
(* The configuration document.  A document is a function from its keys to  *)
(* their values, every value written as text.                              *)
(***************************************************************************)
\* create_default_config, lines 49-62
DefaultConfig ==
    [k \in {"environment", "app", "logs_dir", "console_format", "date_format",
            "include_extras", "level", "logger_name", "backup_count",
            "max_log_size", "timezone", "included_keys"} |->
        CASE k = "environment" -> "development"
          [] k = "app" -> "my_system"
          [] k = "logs_dir" -> "data/logs"
          [] k = "console_format" -> "%(levelname)s:%(name)s:%(message)s"
          [] k = "date_format" -> "%Y-%m-%dT%H:%M:%S%z"
          [] k = "include_extras" -> "False"
          [] k = "level" -> "DEBUG"
          [] k = "logger_name" -> "mylogger"
          [] k = "backup_count" -> "5"
          [] k = "max_log_size" -> "5242880"
          [] k = "timezone" -> "America/Sao_Paulo"
          [] k = "included_keys" -> "{k: True for k in LOG_RECORD_KEYS}"]

\* The documents a user may have written: the default one, one that names
\* no logger, one whose max_log_size is no number, one whose
\* console_format has no field, and one with a single key.
Documents ==
    {DefaultConfig,
     [DefaultConfig EXCEPT !["logger_name"] = ""],
     [DefaultConfig EXCEPT !["max_log_size"] = "abc"],
     [DefaultConfig EXCEPT !["console_format"] = "plain"],
     [k \in {"environment"} |-> "production"]}

\* The names get_logger is called with ("None": no name), the level
\* arguments ("None": no level; "verbose" is no level name), and the
\* loggers the calls can return.
Names == {"None", "", "worker"}
LevelArgs == {"None", "DEBUG", "ERROR", "verbose"}
Handles == {"pylogcfg", "mylogger", "worker"}

\* logging.NOTSET, the level of a logger nobody has set
NOTSET == 0

\* create_default_config: the file holds the default document afterwards.
create_default_config(file) == <<DefaultConfig>>

\* A load_configs that writes the default document every time.
load_configs_Overwrite(file) ==
    [file |-> create_default_config(file), config |-> create_default_config(file)[1]]

\* load_configs: a missing file is created first; the file is read and
\* its contents returned.  Returns the file afterwards and the contents.
load_configs(file) ==
    LET f == IF file = <<>> THEN create_default_config(file) ELSE file
    IN [file |-> f, config |-> f[1]]

\* setup: the loaded configuration with the key log_file added.
setup(file) ==
    LET l == load_configs(file)
    IN [file |-> l.file, config |-> ("log_file" :> "data/logs/log.jsonl") @@ l.config]

\* json_config.get(key, default)
Get(doc, key, default) == IF key \in DOMAIN doc THEN doc[key] ELSE default

\* int(value) of lines 52-53: the number, or -1 where int raises ValueError
int(v) ==
    CASE v = "5" -> 5
      [] v = "5242880" -> 5242880
      [] OTHER -> -1

\* lines 50-56: building the handler raises
HandlerRaises(doc) ==
    \/ int(Get(doc, "max_log_size", "5242880")) < 0
    \/ int(Get(doc, "backup_count", "5")) < 0

\* line 99: dictConfig rejects a console format without a %(field)s
DictConfigRaises(doc) == Get(doc, "console_format", "None") = "plain"

\* Logger.setLevel -> logging._checkLevel: the number of a level name, or
\* -1 where it raises ValueError
checkLevel(level) ==
    CASE level = "DEBUG" -> 10
      [] level = "INFO" -> 20
      [] level = "ERROR" -> 40
      [] OTHER -> -1

(***************************************************************************)
(* Initial state: the module is imported, nothing is constructed, the log  *)
(* directory is empty.  The configuration document is fixed for the run.   *)
(***************************************************************************)
Init ==
    /\ logger = FALSE
    /\ log_queue = None
    /\ listener = None
    /\ init_lock = None
    /\ queues = <<>>
    /\ listeners = <<>>
    /\ handlerQueue = <<>>
    /\ backupCount \in 1..MaxBackup
    /\ maxBytes \in 2..MaxSize
    /\ fs = <<>>
    /\ pc = [t \in Threads |-> "idle"]
    /\ timedOut = [t \in Threads |-> FALSE]
    /\ joining = [t \in Threads |-> None]
    /\ result = [t \in Threads |-> "none"]
    /\ enqLog = <<>>
    /\ emits = [t \in Threads |-> 0]
    /\ snap = [t \in Threads |-> 0]
    /\ released = FALSE
    /\ faults = 0
    /\ raised = 0
    /\ written = <<>>
    /\ dropped = {}
    /\ rolls = 0
    /\ formatter = <<>>
    /\ record = <<>>
    /\ out = <<>>
    /\ config_file = <<>>
    /\ levels = [h \in Handles |-> NOTSET]
    /\ lastLevel = [h \in Handles |-> "never"]
    /\ last = <<>>

(***************************************************************************)
(* get_logger / initialize_logging                                         *)
(***************************************************************************)
\* The check of line 43 left out: every caller constructs.
AlreadyInitialized_Never == FALSE

\* line 43: if _logger is not None
AlreadyInitialized == logger

\* with _init_lock: the lock can be taken
LockFree == init_lock = None

\* The lock taken by hand and not released when the construction raises.
Raise_KeepsLock(t) ==
    /\ init_lock' = init_lock
    /\ pc' = [pc EXCEPT ![t] = "idle"]
    /\ result' = [result EXCEPT ![t] = "RuntimeError"]
    /\ raised' = raised + 1

\* The exception leaves the with block (the lock is released) and
\* get_logger re-raises it as RuntimeError.
Raise(t) ==
    /\ init_lock' = None
    /\ pc' = [pc EXCEPT ![t] = "idle"]
    /\ result' = [result EXCEPT ![t] = "RuntimeError"]
    /\ raised' = raised + 1

\* get_logger is called: setup() reads the configuration, then
\* initialize_logging waits for the lock.
GetLogger(t) ==
    /\ pc[t] = "idle"
    /\ \/ logger
       \/ Len(queues) + Cardinality({u \in Threads : pc[u] \in {"acquire", "mkqueue"}})
              < MaxInits
    /\ pc' = [pc EXCEPT ![t] = "acquire"]
    /\ UNCHANGED <<logger, log_queue, listener, init_lock, queues, listeners,
                   handlerQueue, backupCount, maxBytes, fs, timedOut, joining,
                   result, enqLog, emits, snap, released, faults, raised,
                   written, dropped, rolls>>
    /\ UNCHANGED <<formatting, facade>>

\* lines 42-44: take the lock; with a logger published, return it (the
\* lock is released on the way out and get_logger returns the handle).
Acquire(t) ==
    /\ pc[t] = "acquire"
    /\ LockFree
    /\ IF AlreadyInitialized
       THEN /\ pc' = [pc EXCEPT ![t] = "idle"]
            /\ result' = [result EXCEPT ![t] = "logger"]
            /\ UNCHANGED init_lock
       ELSE /\ init_lock' = t
            /\ pc' = [pc EXCEPT ![t] = "mkqueue"]
            /\ UNCHANGED result
    /\ UNCHANGED <<logger, log_queue, listener, queues, listeners,
                   handlerQueue, backupCount, maxBytes, fs, timedOut, joining,
                   enqLog, emits, snap, released, faults, raised, written,
                   dropped, rolls>>
    /\ UNCHANGED <<formatting, facade>>

\* lines 47-59: _log_queue = queue.Queue(), then the handler and its
\* formatter are built; the conversions of the configuration can raise.
MkQueue(t) ==
    /\ pc[t] = "mkqueue"
    /\ queues' = Append(queues, <<>>)
    /\ log_queue' = Len(queues) + 1
    /\ \/ /\ pc' = [pc EXCEPT ![t] = "mklistener"]
          /\ UNCHANGED <<init_lock, result, faults, raised>>
       \/ /\ faults < MaxFaults
          /\ faults' = faults + 1
          /\ Raise(t)
    /\ UNCHANGED <<logger, listener, listeners, handlerQueue, backupCount,
                   maxBytes, fs, timedOut, joining, enqLog, emits, snap,
                   released, written, dropped, rolls>>
    /\ UNCHANGED <<formatting, facade>>

\* line 62: _listener = QueueListener(_log_queue, file_handler)
MkListener(t) ==
    /\ pc[t] = "mklistener"
    /\ listeners' = Append(listeners,
                           [queue |-> log_queue, thread |-> "unstarted",
                            attr |-> FALSE, cur |-> NoRec, stream |-> FALSE])
    /\ listener' = Len(listeners) + 1
    /\ pc' = [pc EXCEPT ![t] = "start"]
    /\ UNCHANGED <<logger, log_queue, init_lock, queues, handlerQueue,
                   backupCount, maxBytes, fs, timedOut, joining, result,
                   enqLog, emits, snap, released, faults, raised, written,
                   dropped, rolls>>
    /\ UNCHANGED <<formatting, facade>>

\* lines 63-64: _listener.start() sets the listener's _thread and starts
\* it (the start can fail); with _listener None by now it raises
\* AttributeError.  Then _stop_listener is registered for process exit.
Start(t) ==
    /\ pc[t] = "start"
    /\ \/ /\ listener # None
          /\ listeners' = [listeners EXCEPT ![listener].attr = TRUE,
                                            ![listener].thread = "running"]
          /\ pc' = [pc EXCEPT ![t] = "dictconfig"]
          /\ UNCHANGED <<init_lock, result, faults, raised>>
       \/ /\ listener # None
          /\ faults < MaxFaults
          /\ faults' = faults + 1
          /\ listeners' = [listeners EXCEPT ![listener].attr = TRUE]
          /\ Raise(t)
       \/ /\ listener = None
          /\ Raise(t)
          /\ UNCHANGED <<listeners, faults>>
    /\ UNCHANGED <<logger, log_queue, listener, queues, handlerQueue,
                   backupCount, maxBytes, fs, timedOut, joining, enqLog, emits,
                   snap, released, written, dropped, rolls>>
    /\ UNCHANGED <<formatting, facade>>

\* lines 67-100: dictConfig installs a QueueHandler on _log_queue (as read
\* when the dictionary is built) and _logger is published; a rejected
\* configuration raises and installs nothing.
DictConfig(t) ==
    /\ pc[t] = "dictconfig"
    /\ \/ /\ handlerQueue' = <<log_queue>>
          /\ logger' = TRUE
          /\ pc' = [pc EXCEPT ![t] = "info1"]
          /\ UNCHANGED <<init_lock, result, faults, raised>>
       \/ /\ faults < MaxFaults
          /\ faults' = faults + 1
          /\ Raise(t)
          /\ UNCHANGED <<handlerQueue, logger>>
    /\ UNCHANGED <<log_queue, listener, queues, listeners, backupCount,
                   maxBytes, fs, timedOut, joining, enqLog, emits, snap,
                   released, written, dropped, rolls>>
    /\ UNCHANGED <<formatting, facade>>

\* The events thread t has enqueued so far; its next event is numbered
\* one more.
seq(t) == Cardinality({i \in 1..Len(enqLog) : enqLog[i][1] = t})

\* One logging call by thread t through the installed QueueHandler: the
\* event <<producer, number>> is put on the handler's queue.
Log(t) ==
    LET q == handlerQueue[1]
        rec == <<t, seq(t) + 1>>
    IN /\ queues' = Enqueue(queues, q, rec)
       /\ enqLog' = IF q = None THEN enqLog ELSE Append(enqLog, rec)

\* line 101: _logger.info("Logging configured ...")
Info1(t) ==
    /\ pc[t] = "info1"
    /\ Log(t)
    /\ pc' = [pc EXCEPT ![t] = "info2"]
    /\ UNCHANGED <<logger, log_queue, listener, init_lock, listeners,
                   handlerQueue, backupCount, maxBytes, fs, timedOut, joining,
                   result, emits, snap, released, faults,
                   written, dropped, rolls, raised>>
    /\ UNCHANGED <<formatting, facade>>

\* lines 102-104 and 174-178: _logger.info("Log file: ..."), return; the
\* lock is released and get_logger returns the handle.
Info2(t) ==
    /\ pc[t] = "info2"
    /\ Log(t)
    /\ init_lock' = None
    /\ pc' = [pc EXCEPT ![t] = "idle"]
    /\ result' = [result EXCEPT ![t] = "logger"]
    /\ UNCHANGED <<logger, log_queue, listener, listeners, handlerQueue,
                   backupCount, maxBytes, fs, timedOut, joining, emits, snap,
                   released, faults, written, dropped, rolls, raised>>
    /\ UNCHANGED <<formatting, facade>>

\* An emit that takes the initialization lock before it enqueues.
Emit_Locked(t) ==
    /\ pc[t] = "idle"
    /\ handlerQueue # <<>>
    /\ LockFree
    /\ emits[t] < MaxEmit
    /\ emits' = [emits EXCEPT ![t] = @ + 1]
    /\ Log(t)
    /\ UNCHANGED <<logger, log_queue, listener, init_lock, listeners,
                   handlerQueue, backupCount, maxBytes, fs, pc, timedOut,
                   joining, result, snap, released, faults,
                   written, dropped, rolls, raised>>
    /\ UNCHANGED <<formatting, facade>>

\* A producer emits one event through a handle (logger.info and the like).
Emit(t) ==
    /\ pc[t] = "idle"
    /\ handlerQueue # <<>>
    /\ emits[t] < MaxEmit
    /\ emits' = [emits EXCEPT ![t] = @ + 1]
    /\ Log(t)
    /\ UNCHANGED <<logger, log_queue, listener, init_lock, listeners,
                   handlerQueue, backupCount, maxBytes, fs, pc, timedOut,
                   joining, result, snap, released, faults,
                   written, dropped, rolls, raised>>
    /\ UNCHANGED <<formatting, facade>>

(***************************************************************************)
(* _stop_listener                                                          *)
(***************************************************************************)
\* line 141: the exception is caught, and the finally block runs.
ToFinally(t) ==
    /\ pc' = [pc EXCEPT ![t] = "finally1"]
    /\ joining' = [joining EXCEPT ![t] = None]

\* The threads inside _stop_listener.  The function is the module's exit
\* hook (line 64): one call of it runs at a time.
Stopping == {u \in Threads : pc[u] \in {"drain", "stop", "join", "finally1", "finally2"}}

\* A _stop_listener without the check of line 118.
StopCall_Unchecked(t) ==
    /\ pc[t] = "idle"
    /\ Stopping = {}
    /\ pc' = [pc EXCEPT ![t] = "drain"]
    /\ snap' = [snap EXCEPT ![t] = Len(enqLog)]
    /\ timedOut' = [timedOut EXCEPT ![t] = FALSE]
    /\ UNCHANGED <<logger, log_queue, listener, init_lock, queues, listeners,
                   handlerQueue, backupCount, maxBytes, fs, joining, result,
                   enqLog, emits, released, faults, written, dropped, rolls,
                   raised>>
    /\ UNCHANGED <<formatting, facade>>

\* lines 118-129: without a listener the call returns None at once;
\* otherwise the pending count is printed and the 2-second deadline is set.
StopCall(t) ==
    /\ pc[t] = "idle"
    /\ Stopping = {}
    /\ IF listener = None
       THEN /\ result' = [result EXCEPT ![t] = "None"]
            /\ UNCHANGED <<pc, snap, timedOut>>
       ELSE /\ pc' = [pc EXCEPT ![t] = "drain"]
            /\ snap' = [snap EXCEPT ![t] = Len(enqLog)]
            /\ timedOut' = [timedOut EXCEPT ![t] = FALSE]
            /\ UNCHANGED result
    /\ UNCHANGED <<logger, log_queue, listener, init_lock, queues, listeners,
                   handlerQueue, backupCount, maxBytes, fs, joining, enqLog,
                   emits, released, faults, written, dropped,
                   rolls, raised>>
    /\ UNCHANGED <<formatting, facade>>

\* line 132: not _log_queue or _log_queue.qsize() == 0
DrainDone == IF log_queue = None THEN TRUE ELSE qsize(queues[log_queue]) = 0

\* lines 130-136, the loop test failing: time.monotonic() has reached the
\* deadline.  (A turn that finds the queue non-empty sleeps 0.05 s and
\* changes nothing.)
DrainTimeout(t) ==
    /\ pc[t] = "drain"
    /\ pc' = [pc EXCEPT ![t] = "stop"]
    /\ timedOut' = [timedOut EXCEPT ![t] = TRUE]
    /\ UNCHANGED <<logger, log_queue, listener, init_lock, queues, listeners,
                   handlerQueue, backupCount, maxBytes, fs, joining, result,
                   enqLog, emits, snap, released, faults, raised, written,
                   dropped, rolls>>
    /\ UNCHANGED <<formatting, facade>>

\* lines 132-133: the queue is gone or reads empty: break
DrainEmpty(t) ==
    /\ pc[t] = "drain"
    /\ DrainDone
    /\ pc' = [pc EXCEPT ![t] = "stop"]
    /\ UNCHANGED <<logger, log_queue, listener, init_lock, queues, listeners,
                   handlerQueue, backupCount, maxBytes, fs, timedOut, joining,
                   result, enqLog, emits, snap, released, faults,
                   written, dropped, rolls, raised>>
    /\ UNCHANGED <<formatting, facade>>

\* line 139, the first half of QueueListener.stop: enqueue_sentinel(), then
\* self._thread.join() begins.  Every exception (no listener left, no
\* queue, no thread, a thread never started) is caught at line 141.
StopListener(t) ==
    /\ pc[t] = "stop"
    /\ IF listener = None
       THEN /\ ToFinally(t)
            /\ UNCHANGED queues
       ELSE LET l == listeners[listener]
            IN /\ queues' = Enqueue(queues, l.queue, Sentinel)
               /\ IF l.queue # None /\ l.attr /\ l.thread # "unstarted"
                  THEN /\ pc' = [pc EXCEPT ![t] = "join"]
                       /\ joining' = [joining EXCEPT ![t] = listener]
                  ELSE ToFinally(t)
    /\ UNCHANGED <<logger, log_queue, listener, init_lock, listeners,
                   handlerQueue, backupCount, maxBytes, fs, timedOut, result,
                   enqLog, emits, snap, released, faults, raised, written,
                   dropped, rolls>>
    /\ UNCHANGED <<formatting, facade>>

\* A stop() that signals the thread and does not wait for it.
JoinReady_NoWait(l) == TRUE

\* Thread.join returns once the listener's thread has ended.
JoinReady(l) == listeners[l].thread = "exited"

\* line 139, the second half of QueueListener.stop: the join returns and
\* self._thread = None.
Join(t) ==
    /\ pc[t] = "join"
    /\ JoinReady(joining[t])
    /\ listeners' = [listeners EXCEPT ![joining[t]].attr = FALSE]
    /\ pc' = [pc EXCEPT ![t] = "finally1"]
    /\ UNCHANGED <<logger, log_queue, listener, init_lock, queues,
                   handlerQueue, backupCount, maxBytes, fs, timedOut, joining,
                   result, enqLog, emits, snap, released, faults, raised,
                   written, dropped, rolls>>
    /\ UNCHANGED <<formatting, facade>>

\* line 144: _listener = None
Finally1(t) ==
    /\ pc[t] = "finally1"
    /\ listener' = None
    /\ pc' = [pc EXCEPT ![t] = "finally2"]
    /\ UNCHANGED <<logger, log_queue, init_lock, queues, listeners,
                   handlerQueue, backupCount, maxBytes, fs, timedOut, joining,
                   result, enqLog, emits, snap, released, faults,
                   written, dropped, rolls, raised>>
    /\ UNCHANGED <<formatting, facade>>

\* line 145: _log_queue = None, and _stop_listener returns
Finally2(t) ==
    /\ pc[t] = "finally2"
    /\ log_queue' = None
    /\ pc' = [pc EXCEPT ![t] = "idle"]
    /\ released' = TRUE
    /\ timedOut' = [timedOut EXCEPT ![t] = FALSE]
    /\ joining' = [joining EXCEPT ![t] = None]
    /\ snap' = [snap EXCEPT ![t] = 0]
    /\ UNCHANGED <<logger, listener, init_lock, queues, listeners,
                   handlerQueue, backupCount, maxBytes, fs, result, enqLog,
                   emits, faults, written, dropped, rolls, raised>>
    /\ UNCHANGED <<formatting, facade>>

(***************************************************************************)
(* QueueListener._monitor, the listener's thread                           *)
(***************************************************************************)
Listeners == 1..Len(listeners)

\* A _monitor loop that takes an item off the queue and forgets it.
Dequeue_Forget(l) ==
    /\ listeners[l].thread = "running"
    /\ listeners[l].cur = NoRec
    /\ listeners[l].queue # None
    /\ queues[listeners[l].queue] # <<>>
    /\ queues' = [queues EXCEPT ![listeners[l].queue] = Tail(@)]
    /\ UNCHANGED <<logger, log_queue, listener, init_lock, handlerQueue,
                   listeners, backupCount, maxBytes, fs, pc, timedOut, joining,
                   result, enqLog, emits, snap, released, faults, raised,
                   written, dropped, rolls>>
    /\ UNCHANGED <<formatting, facade>>

\* record = self.dequeue(True): blocks until the queue has an item.  The
\* sentinel ends the thread; a listener built on None dies on the call.
Dequeue(l) ==
    /\ listeners[l].thread = "running"
    /\ listeners[l].cur = NoRec
    /\ LET q == listeners[l].queue
       IN IF q = None
          THEN /\ listeners' = [listeners EXCEPT ![l].thread = "exited"]
               /\ UNCHANGED queues
          ELSE /\ queues[q] # <<>>
               /\ queues' = [queues EXCEPT ![q] = Tail(@)]
               /\ listeners' =
                      IF Head(queues[q]) = Sentinel
                      THEN [listeners EXCEPT ![l].thread = "exited"]
                      ELSE [listeners EXCEPT ![l].cur = Head(queues[q])]
    /\ UNCHANGED <<logger, log_queue, listener, init_lock, handlerQueue,
                   backupCount, maxBytes, fs, pc, timedOut, joining, result,
                   enqLog, emits, snap, released, faults, raised, written,
                   dropped, rolls>>
    /\ UNCHANGED <<formatting, facade>>

\* An emit without its except clause: the sink's error ends the thread.
AfterHandle_Dies(lrec, r) ==
    IF r.wrote
    THEN [lrec EXCEPT !.cur = NoRec, !.stream = r.open]
    ELSE [lrec EXCEPT !.cur = NoRec, !.stream = r.open, !.thread = "exited"]

\* The listener after handle(record) has returned: emit caught whatever
\* the sink raised, so the thread goes on to its next dequeue.
AfterHandle(lrec, r) == [lrec EXCEPT !.cur = NoRec, !.stream = r.open]

\* self.handle(record): the handler's emit, to its end.
Handle(l) ==
    /\ listeners[l].cur # NoRec
    /\ \E fault \in {"none", "open", "write"} :
         LET rec == listeners[l].cur
             r == SinkEmit(fs, listeners[l].stream, backupCount, maxBytes, rec, fault)
         IN /\ fault # "none" =>
                 /\ faults < MaxFaults
                 /\ FaultApplies(fs, listeners[l].stream, maxBytes, rec, fault)
            /\ faults' = IF fault = "none" THEN faults ELSE faults + 1
            /\ fs' = r.dir
            /\ listeners' = [listeners EXCEPT ![l] = AfterHandle(@, r)]
            /\ written' = IF r.wrote THEN Append(written, rec) ELSE written
            /\ dropped' = IF r.wrote THEN dropped ELSE dropped \cup {rec}
            /\ rolls' = IF r.rolled THEN rolls + 1 ELSE rolls
    /\ UNCHANGED <<logger, log_queue, listener, init_lock, queues,
                   handlerQueue, backupCount, maxBytes, pc, timedOut, joining,
                   result, enqLog, emits, snap, released, raised>>
    /\ UNCHANGED <<formatting, facade>>

Next ==
    \/ \E t \in Threads :
         \/ GetLogger(t) \/ Acquire(t) \/ MkQueue(t) \/ MkListener(t)
         \/ Start(t) \/ DictConfig(t) \/ Info1(t) \/ Info2(t) \/ Emit(t)
         \/ StopCall(t) \/ DrainTimeout(t) \/ DrainEmpty(t)
         \/ StopListener(t) \/ Join(t) \/ Finally1(t) \/ Finally2(t)
    \/ \E l \in Listeners : Dequeue(l) \/ Handle(l)

Spec == Init /\ [][Next]_vars

\* One turn of the _monitor loop of listener l, if that listener exists.
Monitor(l) == l \in Listeners /\ (Dequeue(l) \/ Handle(l))

\* The listener's thread is scheduled again and again, and a sink call
\* returns: a turn of _monitor that can be taken is taken.
MonitorFair == \A l \in 1..MaxInits : WF_vars(Monitor(l))

\* The runs checked for liveness: one configuration, no initialization
\* that raises, and only the first thread calls get_logger.
InitFair == Init /\ backupCount = 1 /\ maxBytes = 2

NextFair ==
    \/ GetLogger(1) \/ Acquire(1) \/ MkListener(1) \/ Info1(1) \/ Info2(1)
    \/ MkQueue(1) /\ raised' = raised
    \/ Start(1) /\ raised' = raised
    \/ DictConfig(1) /\ raised' = raised
    \/ \E t \in Threads :
         \/ Emit(t) \/ StopCall(t) \/ DrainTimeout(t) \/ DrainEmpty(t)
         \/ StopListener(t) \/ Join(t) \/ Finally1(t) \/ Finally2(t)
    \/ \E l \in Listeners : Dequeue(l) \/ Handle(l)

SpecFair == InitFair /\ [][NextFair]_vars /\ MonitorFair

(***************************************************************************)
(* JSONLogFormatter, driven on its own: a formatter is constructed from a  *)
(* policy and then formats one record after another.  A value is the text  *)
(* that names it ("None" is Python's None), a dictionary is a function     *)
(* from its keys to their values.                                          *)
(***************************************************************************)
\* cfg_pylogcfg.py, lines 20-41
LOG_RECORD_KEYS ==
    {"asctime", "created", "filename", "funcName", "levelname", "levelno",
     "lineno", "message", "module", "msecs", "msg", "name", "pathname",
     "process", "processName", "relativeCreated", "stack_info", "thread",
     "threadName", "taskname"}

\* vars(record) of a LogRecord the logging call built without extras.
RecordAttrs ==
    {"name", "msg", "args", "levelname", "levelno", "pathname", "filename",
     "module", "exc_info", "exc_text", "stack_info", "lineno", "funcName",
     "created", "msecs", "relativeCreated", "thread", "threadName",
     "processName", "process"}

\* The keys a policy's included_keys may name: standard fields and one
\* name that is no standard field.
PolicyKeys == {"name", "message", "stack_info", "bogus"}

\* record.exc_info: None, the tuple (None, None, None) that
\* logger.exception leaves outside an except block, or a caught exception.
ExcInfos == {"None", "(None, None, None)", "(type, value, traceback)"}

\* record.stack_info: None or the text of the stack
StackInfos == {"None", "Stack (most recent call last): ..."}

\* record.args: arguments that fit the message template, or not
ArgsOf == {"(fit)", "(misfit)"}

\* The extras of a logging call: none, a string, an object json cannot
\* serialise.
Extras == {<<>>, <<"user", "alice">>, <<"conn", "<object>">>}

\* included_keys: any mapping from some of the keys to an active flag
IncludedKeys == UNION {[K -> BOOLEAN] : K \in SUBSET PolicyKeys}

\* The policies: include_extras may be absent from the configuration.
Policies ==
    [included_keys : IncludedKeys,
     include_extras : {"True", "False", "absent"},
     timezone : {"America/Sao_Paulo", "Nowhere/Invalid"}]

\* The LogRecord of one logging call.
LogRecord(exc, stack, args, extra) ==
    LET base == [a \in RecordAttrs |->
                    CASE a = "exc_info" -> exc
                      [] a = "stack_info" -> stack
                      [] a = "args" -> args
                      [] a = "exc_text" -> "None"
                      [] OTHER -> "<" \o a \o ">"]
    IN IF extra = <<>> THEN base ELSE (extra[1] :> extra[2]) @@ base

Records ==
    {LogRecord(e, s, a, x) : e \in ExcInfos, s \in StackInfos, a \in ArgsOf,
                             x \in Extras}

\* A formatter that takes every key of included_keys, active or not.
Include_keys_All(cfg) == DOMAIN cfg.included_keys

\* lines 121-124: the keys of included_keys whose flag is true
Include_keys(cfg) == {k \in DOMAIN cfg.included_keys : cfg.included_keys[k]}

\* ZoneInfo(identifier) finds the zone
ValidZone(tz) == tz = "America/Sao_Paulo"

\* lines 127-131: the configured zone, or the local zone when ZoneInfo
\* raises
Tz(cfg) == IF ValidZone(cfg.timezone) THEN cfg.timezone ELSE "local"

\* JSONLogFormatter.__init__
NewFormatter(cfg) == [cfg |-> cfg, include_keys |-> Include_keys(cfg), tz |-> Tz(cfg)]

\* getattr(record, key, None)
GetAttr(r, key) == IF key \in DOMAIN r THEN r[key] ELSE "None"

\* Python's truth value of an attribute: None is false, a tuple of three
\* and a text are true.
Truthy(v) == v # "None"

\* record.getMessage(): msg % args raises TypeError when the arguments do
\* not fit the template.
GetMessageRaises(r) == r["args"] = "(misfit)"

\* formatTime: the creation time rendered in the formatter's zone
FormatTime(f, r) == "<time in " \o f.tz \o ">"

\* Formatter.formatException: the traceback text; for (None, None, None)
\* print_exception writes "NoneType: None".
FormatException(ei) ==
    IF ei = "(None, None, None)" THEN "NoneType: None" ELSE "Traceback ..."

\* self.cfg.get("include_extras", True)
IncludeExtras(cfg) == cfg.include_extras # "False"

\* lines 149-152: the selected standard fields, as the record carries them
Selected(f, r) ==
    [k \in f.include_keys \cap LOG_RECORD_KEYS |-> GetAttr(r, k)]

\* lines 154-157: the four stamps, over whatever was selected
Stamped(f, r, d) ==
    [k \in {"app", "environment", "created", "message"} |->
        CASE k = "created" -> FormatTime(f, r)
          [] k = "message" -> "<message>"
          [] OTHER -> "<" \o k \o ">"] @@ d

\* lines 159-162: the traceback of an exception, unless it renders as the
\* no-exception text
WithException(r, d) ==
    IF Truthy(r["exc_info"]) /\ FormatException(r["exc_info"]) # "NoneType: None"
    THEN ("exc_info" :> FormatException(r["exc_info"])) @@ d
    ELSE d

\* lines 164-165
WithStack(r, d) ==
    IF Truthy(r["stack_info"]) THEN ("stack_info" :> r["stack_info"]) @@ d ELSE d

\* lines 168-171: every attribute of the record that is no standard field
\* is assigned over what is there
WithExtras(f, r, d) ==
    IF IncludeExtras(f.cfg)
    THEN [k \in DOMAIN r \ LOG_RECORD_KEYS |-> r[k]] @@ d
    ELSE d

\* json.dumps(data, default=str): None is null, a tuple is a list, and what
\* json cannot serialise is replaced by its str().
Dumps(d) ==
    [k \in DOMAIN d |->
        CASE d[k] = "None" -> "null"
          [] d[k] = "<object>" -> "str(<object>)"
          [] d[k] = "(type, value, traceback)" -> "[str(type), str(value), str(traceback)]"
          [] d[k] = "(None, None, None)" -> "[null, null, null]"
          [] OTHER -> d[k]]

\* JSONLogFormatter.format: the JSON object of the line, or the exception
\* that getMessage raised at line 157.
Format(f, r) ==
    IF GetMessageRaises(r)
    THEN [raised |-> TRUE, data |-> <<>>]
    ELSE [raised |-> FALSE,
          data |-> Dumps(WithExtras(f, r, WithStack(r, WithException(r,
                        Stamped(f, r, Selected(f, r))))))]

\* JSONLogFormatter(json_config)
Construct ==
    /\ formatter = <<>>
    /\ \E cfg \in Policies : formatter' = <<NewFormatter(cfg)>>
    /\ UNCHANGED <<record, out, pipeline, facade>>

\* formatter.format(record), for the next record
FormatRecord ==
    /\ formatter # <<>>
    /\ \E r \in Records :
         /\ record' = <<r>>
         /\ out' = <<Format(formatter[1], r)>>
    /\ UNCHANGED <<formatter, pipeline, facade>>

InitFormat == Init /\ backupCount = 1 /\ maxBytes = 2

NextFormat == Construct \/ FormatRecord

SpecFormat == InitFormat /\ [][NextFormat]_vars

(***************************************************************************)
(* get_logger called from one thread, call after call, with the listener   *)
(* thread not yet scheduled: each call is setup(), initialize_logging to   *)
(* its end, and setLevel on the handle.  Between calls the user may write  *)
(* or remove the configuration document.                                   *)
(***************************************************************************)
\* line 167 and line 175: the logger the call returns
Handle_of(doc, name) ==
    LET logger_name == IF name = "None" THEN Get(doc, "logger_name", "None") ELSE name
    IN IF logger_name \in {"None", ""} THEN "pylogcfg" ELSE logger_name

\* line 174: "DEBUG" if level is None else level
Log_level(level) == IF level = "None" THEN "DEBUG" ELSE level

\* A get_logger that sets the level only when one is passed.
SetLevel_IfPassed(lv, h, level) ==
    IF level = "None" THEN lv ELSE [lv EXCEPT ![h] = checkLevel(level)]

\* lines 174-176: new_logger.setLevel(log_level), the level valid
SetLevel(lv, h, level) == [lv EXCEPT ![h] = checkLevel(Log_level(level))]

\* initialize_logging run to its end by thread t on configuration doc,
\* with nothing constructed before: the queue of line 47, then either a
\* raise while the handler is built, or the started listener of lines
\* 62-63 and either a raise in dictConfig or the published logger and the
\* two events of lines 101-102.
initialize_logging(t, doc) ==
    LET q == Len(queues) + 1
        l == Len(listeners) + 1
        ok == ~HandlerRaises(doc) /\ ~DictConfigRaises(doc)
    IN /\ log_queue' = q
       /\ queues' = Append(queues,
                           IF ok THEN <<<<t, seq(t) + 1>>, <<t, seq(t) + 2>>>> ELSE <<>>)
       /\ enqLog' = IF ok THEN enqLog \o <<<<t, seq(t) + 1>>, <<t, seq(t) + 2>>>> ELSE enqLog
       /\ IF HandlerRaises(doc)
          THEN UNCHANGED <<listener, listeners, backupCount, maxBytes>>
          ELSE /\ listener' = l
               /\ listeners' = Append(listeners,
                                      [queue |-> q, thread |-> "running", attr |-> TRUE,
                                       cur |-> NoRec, stream |-> FALSE])
               /\ backupCount' = int(Get(doc, "backup_count", "5"))
               /\ maxBytes' = int(Get(doc, "max_log_size", "5242880"))
       /\ logger' = ok
       /\ handlerQueue' = IF ok THEN <<q>> ELSE handlerQueue
       /\ raised' = IF ok THEN raised ELSE raised + 1

\* One get_logger(name, level) call by thread t, from line 166 to its
\* return or its exception.
get_logger(t, name, level) ==
    LET s == setup(config_file)
        h == Handle_of(s.config, name)
        lvl == checkLevel(Log_level(level))
        built == ~logger
        failed == built /\ (HandlerRaises(s.config) \/ DictConfigRaises(s.config))
        \* dictConfig sets the level of "pylogcfg" to DEBUG
        configured == IF built /\ ~failed
                      THEN [levels EXCEPT !["pylogcfg"] = checkLevel("DEBUG")]
                      ELSE levels
    IN /\ config_file' = s.file
       /\ IF built
          THEN initialize_logging(t, s.config)
          ELSE UNCHANGED <<log_queue, queues, enqLog, listener, listeners,
                           backupCount, maxBytes, logger, handlerQueue, raised>>
       /\ levels' = IF failed \/ lvl < 0 THEN configured
                    ELSE SetLevel(configured, h, level)
       /\ lastLevel' = IF failed \/ lvl < 0 THEN lastLevel
                       ELSE [lastLevel EXCEPT ![h] = level]
       /\ last' = <<[config |-> s.config, handle |-> h, before |-> levels[h],
                     ended |-> IF failed THEN "RuntimeError"
                               ELSE IF lvl < 0 THEN "ValueError" ELSE "logger"]>>

\* A call of get_logger by the first thread.
Call ==
    /\ logger \/ Len(queues) < MaxInits
    /\ \E name \in Names, level \in LevelArgs : get_logger(1, name, level)
    /\ UNCHANGED <<init_lock, fs, pc, timedOut, joining, result, emits, snap,
                   released, faults, written, dropped, rolls, formatting>>

\* The user writes the configuration document or removes it.
WriteConfig ==
    /\ config_file' \in ({<<>>} \cup {<<d>> : d \in Documents}) \ {config_file}
    /\ UNCHANGED <<pipeline, formatting, levels, lastLevel, last>>

InitFacade == Init /\ backupCount = 1 /\ maxBytes = 2

NextFacade == Call \/ WriteConfig

SpecFacade == InitFacade /\ [][NextFacade]_vars

(***************************************************************************)
(* Properties                                                              *)
(***************************************************************************)
Range(f) == {f[i] : i \in 1..Len(f)}

\* The position of an event in the order of the puts.
PutIndex(rec) == CHOOSE i \in 1..Len(enqLog) : enqLog[i] = rec

\* The threads between line 47 and line 100, building a pipeline.
Constructing ==
    {t \in Threads : pc[t] \in {"mkqueue", "mklistener", "start", "dictconfig"}}

\* The listeners whose thread was started, and those whose thread runs.
Started == {l \in Listeners : listeners[l].thread # "unstarted"}
Running == {l \in Listeners : listeners[l].thread = "running"}

\* The events of one producer keep their numbering order in a sequence.
ProducerOrder(lines) ==
    \A i, j \in 1..Len(lines) :
        (i < j /\ lines[i][1] = lines[j][1]) => lines[i][2] < lines[j][2]

\* C1: concurrent callers of initialize_logging construct one at a time
\* and never once a logger is published; a queue or a started listener
\* beyond the first exists only after a construction that raised, so with
\* none raised exactly one queue and one started listener exist and
\* every caller that has returned holds the published logger.
C1_SingleConstruction ==
    /\ Cardinality({t \in Threads : pc[t] \in {"mkqueue", "mklistener", "start",
                                              "dictconfig", "info1", "info2"}}) <= 1
    /\ logger => Constructing = {}
    /\ Len(queues) <= raised + 1
    /\ Cardinality(Started) <= raised + 1
    /\ \A t \in Threads :
         result[t] = "logger" =>
            /\ logger
            /\ raised = 0 => (Len(queues) = 1 /\ Cardinality(Started) = 1)

C1_Witness ==
    /\ \A t \in Threads : result[t] = "logger" /\ pc[t] = "idle"
    /\ raised = 0
    /\ Len(queues) = 1
    /\ Cardinality(Running) = 1

\* C2: the events of each producer are written in the order that producer
\* enqueued them: in the sequence of all writes, inside every file of the
\* log directory, and every backup line before the active file's lines.
C2_ProducerFifo ==
    /\ ProducerOrder(written)
    /\ \A n \in DOMAIN fs : ProducerOrder(fs[n])
    /\ \A n \in Backups(fs) :
         exists(fs, baseFilename) => ProducerOrder(fs[n] \o fs[baseFilename])

C2_Witness ==
    \E i, j, k \in 1..Len(written) :
        /\ i < j /\ j < k
        /\ written[i][1] = written[k][1]
        /\ written[j][1] # written[i][1]

\* C3: once the 2-second budget has elapsed _stop_listener does not wait
\* for the listener: it is never held in stop() while the listener still
\* has a record in hand or events ahead of the sentinel.
C3_BoundedShutdown ==
    \A t \in Threads :
        (pc[t] = "join" /\ timedOut[t]) =>
            LET l == listeners[joining[t]]
            IN l.thread = "running" =>
                  /\ l.cur = NoRec
                  /\ queues[l.queue] # <<>> => Head(queues[l.queue]) = Sentinel

C5_RebuildsAfterShutdown ==
    [][\A t \in Threads :
          (released /\ pc[t] = "acquire" /\ pc'[t] # "acquire") =>
              \/ pc'[t] = "mkqueue"
              \/ /\ listener' # None
                 /\ log_queue' # None
                 /\ listeners'[listener'].thread = "running"]_vars

\* C6: a construction step that raises ends the call with RuntimeError,
\* publishes no logger and releases the lock, so that a later call takes
\* the lock and constructs again.
C6_FailureLeavesUninitialized ==
    [][\A t \in Threads :
          (t \in Constructing /\ raised' # raised /\ init_lock = t) =>
              /\ result'[t] = "RuntimeError"
              /\ pc'[t] = "idle"
              /\ ~logger /\ ~logger'
              /\ init_lock' = None]_vars

C6_Witness ==
    /\ raised >= 1
    /\ logger
    /\ \A t \in Threads : result[t] = "logger" /\ pc[t] = "idle"

\* C7: at most one listener thread runs at any time.
C7_OneRunningListener == Cardinality(Running) <= 1

\* The step in which listener l finishes handling the record in its hand.
HandleStep(l) ==
    /\ listeners[l].cur # NoRec
    /\ listeners'[l].cur = NoRec

Min(a, b) == IF a < b THEN a ELSE b

\* C8: whenever the line in the listener's hand would take the active
\* file to max size or past it, and the environment fails nothing,
\* handling it completes exactly one rollover and leaves the line as the
\* only line of the fresh active file.
C8_RotateThenWrite ==
    [][\A l \in Listeners :
          (HandleStep(l) /\ faults' = faults
             /\ shouldRollover(Open(fs), maxBytes, listeners[l].cur)) =>
              /\ rolls' = rolls + 1
              /\ exists(fs', baseFilename)
              /\ fs'[baseFilename] = <<listeners[l].cur>>]_vars

\* C9: after k completed rollovers exactly min(k, backup_count) backups
\* are retained, each with a name ending in "jsonl".
C9_BackupsRetained ==
    /\ Cardinality(Backups(fs)) = Min(rolls, backupCount)
    /\ \A n \in Backups(fs) : n[Len(n)] = "jsonl"

\* C10: handling a record never ends the listener's thread, whatever the
\* sink does: the step leaves the thread running with its hand empty and
\* the queues untouched, the record is either the one new written line or
\* the one new dropped event, and the thread ends only on the sentinel
\* (or on a listener built without a queue).
C10_SinkFailureIsolated ==
    [][\A l \in Listeners :
          /\ HandleStep(l) =>
               /\ listeners'[l].thread = listeners[l].thread
               /\ queues' = queues
               /\ \/ /\ written' = Append(written, listeners[l].cur)
                     /\ dropped' = dropped
                  \/ /\ written' = written
                     /\ dropped' = dropped \cup {listeners[l].cur}
          /\ (listeners[l].thread = "running" /\ listeners'[l].thread # "running") =>
               \/ listeners[l].queue = None
               \/ /\ listeners[l].cur = NoRec
                  /\ Head(queues[listeners[l].queue]) = Sentinel]_vars

\* A later event was written after the sink had dropped an earlier one.
C10_Witness ==
    \E d \in dropped : \E i \in 1..Len(written) :
        /\ PutIndex(written[i]) > PutIndex(d)
        /\ \E l \in Running : listeners[l].queue = handlerQueue[1]

\* The formatter has returned a line for the record in hand.
Formatted == out # <<>> /\ ~out[1].raised

\* The standard field k is marked active in the formatter's policy.
Active(k) ==
    /\ k \in DOMAIN formatter[1].cfg.included_keys
    /\ formatter[1].cfg.included_keys[k]

\* The fields format writes whatever the policy says: the two stamps that
\* are standard fields, and the stack of a record that carries one.
AlwaysWritten(r) ==
    {"created", "message"} \cup
        (IF Truthy(r["stack_info"]) THEN {"stack_info"} ELSE {})

\* C11 (as stated): the formatted object holds every active standard
\* field the record carries a value for, and no standard field that is
\* inactive or absent from included_keys.
C11_FieldSelection ==
    Formatted =>
        \A k \in LOG_RECORD_KEYS :
            /\ (Active(k) /\ k \in DOMAIN record[1]) => k \in DOMAIN out[1].data
            /\ ~Active(k) => k \notin DOMAIN out[1].data

\* C11 (amended): the formatted object holds every active standard field
\* the record carries a value for; a standard field that is inactive or
\* absent from included_keys appears only if it is one that format always
\* writes: created, message, and stack_info of a record carrying a stack.
C11_FieldSelectionButStamps ==
    Formatted =>
        \A k \in LOG_RECORD_KEYS :
            /\ (Active(k) /\ k \in DOMAIN record[1]) => k \in DOMAIN out[1].data
            /\ (~Active(k) /\ k \notin AlwaysWritten(record[1])) =>
                   k \notin DOMAIN out[1].data
            /\ k \in AlwaysWritten(record[1]) => k \in DOMAIN out[1].data

C11_Witness ==
    /\ Formatted
    /\ Active("name") /\ "name" \in DOMAIN out[1].data
    /\ "stack_info" \in DOMAIN formatter[1].cfg.included_keys
    /\ ~Active("stack_info") /\ "stack_info" \notin DOMAIN out[1].data
    /\ IncludeExtras(formatter[1].cfg)

\* C12: for a record without exception info the formatted object has no
\* exc_info key, under every policy; for a record with a caught exception
\* exc_info is the rendered traceback.
C12_ExceptionField ==
    Formatted =>
        /\ record[1]["exc_info"] = "None" => "exc_info" \notin DOMAIN out[1].data
        /\ record[1]["exc_info"] = "(type, value, traceback)" =>
               /\ "exc_info" \in DOMAIN out[1].data
               /\ out[1].data["exc_info"] = FormatException(record[1]["exc_info"])

\* C13: constructing a formatter and formatting never raise, whatever the
\* policy and the record: every format call returns a line.
C13_FormatTotal == out # <<>> => ~out[1].raised

\* The pipeline is Ready: the logger is published and its QueueHandler
\* holds a queue.
Ready == logger /\ handlerQueue # <<>> /\ handlerQueue[1] # None

\* The step is an emit call of producer t.
EmitStep(t) == emits'[t] = emits[t] + 1

\* C14: in every Ready state a producer that is about to emit can do so at
\* once, whoever holds the initialization lock, whatever the listener is
\* doing and however long the queue is; and the emit is one append of the
\* event at the tail of the handler's queue that touches neither the
\* lock, nor the listeners, nor the log directory.
C14_EnqueueNonBlocking ==
    /\ [](\A t \in Threads :
            (Ready /\ pc[t] = "idle" /\ emits[t] < MaxEmit) => ENABLED Emit(t))
    /\ [][\A t \in Threads :
            (Ready /\ EmitStep(t)) =>
                /\ queues' = [queues EXCEPT ![handlerQueue[1]] =
                                 Append(@, <<t, seq(t) + 1>>)]
                /\ enqLog' = Append(enqLog, <<t, seq(t) + 1>>)
                /\ init_lock' = init_lock
                /\ listeners' = listeners
                /\ fs' = fs
                /\ pc' = pc]_vars

\* A producer has emitted while the listener was inside the sink with a
\* record and another thread held the lock.
C14_Witness ==
    \E t \in Threads : \E l \in Running :
        /\ Ready
        /\ emits[t] = 1
        /\ init_lock \notin {None, t}
        /\ listeners[l].cur # NoRec
        /\ listeners[l].queue = handlerQueue[1]
        /\ queues[handlerQueue[1]] # <<>>
        /\ queues[handlerQueue[1]][Len(queues[handlerQueue[1]])] = <<t, 1>>

\* The step in which a _stop_listener call of thread t returns at line 119.
NoopStop(t) == result'[t] = "None" /\ result[t] # "None"

\* The step puts the sentinel on queue q.
SentinelPut(q) == queues'[q] = Append(queues[q], Sentinel)

\* C15: a _stop_listener call returns at line 119 only when no listener
\* exists, and then the handles, the queues, the listener objects and
\* every thread stay as they were; a call enters the drain loop only with
\* a listener present; and a sentinel is put only on a queue that holds
\* none and whose listener has not ended, so no listener is stopped twice.
C15_StopWithoutListener ==
    [][/\ \A t \in Threads :
            /\ NoopStop(t) =>
                 /\ listener = None
                 /\ UNCHANGED <<listener, log_queue, logger, init_lock, queues,
                                listeners, handlerQueue, fs, pc, released>>
            /\ (pc[t] = "idle" /\ pc'[t] = "drain") => listener # None
       /\ \A q \in 1..Len(queues) :
            SentinelPut(q) =>
                /\ Sentinel \notin Range(queues[q])
                /\ \A l \in Listeners :
                     listeners[l].queue = q => listeners[l].thread # "exited"]_vars

\* A shutdown has released the handles and a later _stop_listener call
\* found no listener.
C15_Witness ==
    /\ released
    /\ logger /\ listener = None /\ log_queue = None
    /\ \E t \in Threads : result[t] = "None" /\ pc[t] = "idle"
    /\ \E l \in Listeners : listeners[l].thread = "exited"

\* The step is a whole get_logger call that found no configuration
\* document, or one that found a document.
CallWithoutDocument == config_file = <<>> /\ config_file' # <<>>
CallWithDocument == config_file # <<>> /\ last' # last

\* C16: a get_logger call that finds no configuration document creates
\* the default one, which has the keys environment, timezone and
\* included_keys, gets its contents from setup() and does not end in
\* RuntimeError; a call that finds a document gets that document's
\* contents and leaves the file as it was.
C16_DefaultDocument ==
    [][/\ (CallWithoutDocument /\ last' # last) =>
             /\ {"environment", "timezone", "included_keys"} \subseteq DOMAIN config_file'[1]
             /\ \A k \in DOMAIN config_file'[1] : last'[1].config[k] = config_file'[1][k]
             /\ last'[1].ended # "RuntimeError"
             /\ logger'
       /\ CallWithDocument =>
             /\ config_file' = config_file
             /\ \A k \in DOMAIN config_file[1] : last'[1].config[k] = config_file[1][k]]_vars

\* A first call created the default document and published the logger;
\* a later call found the document a user had written since.
C16_Witness ==
    /\ logger
    /\ Len(queues) = 1
    /\ last # <<>>
    /\ config_file # <<>>
    /\ config_file[1] # DefaultConfig
    /\ \A k \in DOMAIN config_file[1] : last[1].config[k] = config_file[1][k]

\* C20: the level of every handle is the level argument of the last call
\* that returned it, or DEBUG when that call passed no level.
C20_LevelOfLastCall ==
    \A h \in Handles :
        lastLevel[h] # "never" =>
            levels[h] = IF lastLevel[h] = "None" THEN checkLevel("DEBUG")
                        ELSE checkLevel(lastLevel[h])

\* A call without a level has just returned a handle whose level an
\* earlier call had set to ERROR: the handle is back at DEBUG.
C20_Witness ==
    /\ last # <<>>
    /\ last[1].ended = "logger"
    /\ last[1].handle # "pylogcfg"
    /\ last[1].before = checkLevel("ERROR")
    /\ lastLevel[last[1].handle] = "None"
    /\ levels[last[1].handle] = checkLevel("DEBUG")

\* Every event a run can enqueue.
Events == Threads \X (1..(MaxEmit + 2))

\* The event waits in the queue of a running listener and no sentinel
\* has been put on that queue: no shutdown of this pipeline has reached
\* the listener's stop.
Pending(rec) ==
    \E l \in Running :
        /\ listeners[l].queue # None
        /\ rec \in Range(queues[listeners[l].queue])
        /\ Sentinel \notin Range(queues[listeners[l].queue])

\* The sink has written the event or dropped it on an error.
Handled(rec) == rec \in Range(written) \cup dropped

\* C17: with the listener's thread scheduled fairly and every sink call
\* returning, an event that waits in the queue of a running listener
\* before that listener is told to stop is eventually written or dropped.
C17_EventuallyHandled == \A rec \in Events : Pending(rec) ~> Handled(rec)

\* Three events were enqueued and all are handled with no shutdown begun.
C17_Witness ==
    /\ Len(enqLog) >= 3
    /\ \A i \in 1..Len(enqLog) : Handled(enqLog[i])
    /\ Stopping = {} /\ ~released
    /\ Running # {}

\* The step in which the _stop_listener call of thread t returns from
\* its finally block.
StopReturns(t) == pc[t] = "finally2" /\ pc'[t] = "idle"

\* C18: when a _stop_listener call that found a listener returns, the
\* listener handle and the queue handle are both None, whether stop()
\* returned or raised; and once such a call has returned, no line is
\* written to the log directory.
C18_ReleasedAndSilent ==
    [][/\ \A t \in Threads :
            StopReturns(t) => (listener' = None /\ log_queue' = None)
       /\ released => (written' = written /\ fs' = fs)]_vars

\* C19: whenever no thread is inside initialize_logging or
\* _stop_listener, the listener handle and the queue handle are both set
\* or both None, and the logger is set only if both are set or a
\* shutdown has run.
C19_HandlesConsistent ==
    (\A t \in Threads : pc[t] \in {"idle", "acquire"}) =>
        /\ (listener = None) <=> (log_queue = None)
        /\ logger => ((listener # None /\ log_queue # None) \/ released)

====
